---- MODULE Spec2Model ----
(***************************************************************************)
(* Accept-Encoding of syphar/headers: the coding token (util/encoding.rs), *)
(* the quality-weighted value and the flattened comma-separated value it   *)
(* is read from, and the field type (common/accept_encoding.rs) with       *)
(* iter, iter_encodings, accepts and from_iter.                            *)
(*                                                                         *)
(* Text is a sequence of one-character strings, so that splitting,         *)
(* trimming, parsing and formatting are computed character by character.   *)
(***************************************************************************)
EXTENDS Integers, Sequences, FiniteSets, TLC

\* Longest list of items a header or a from_iter call carries in the model.
MaxItems == 3
\* Longest text of an extension token that the token round trip draws.
MaxExtLen == 2

(***************************************************************************)
(* Text helpers (str::trim, str::find, str::split).                        *)
(***************************************************************************)
Whitespace == {" ", "\t"}

RECURSIVE TrimStart(_)
TrimStart(s) ==
    IF s # <<>> /\ Head(s) \in Whitespace THEN TrimStart(Tail(s)) ELSE s

RECURSIVE TrimEnd(_)
TrimEnd(s) ==
    IF s # <<>> /\ s[Len(s)] \in Whitespace
    THEN TrimEnd(SubSeq(s, 1, Len(s) - 1))
    ELSE s

Trim(s) == TrimEnd(TrimStart(s))

\* Index of the first c in s at or after position i, 0 when there is none.
RECURSIVE Find(_, _, _)
Find(s, c, i) ==
    IF i > Len(s) THEN 0
    ELSE IF s[i] = c THEN i
    ELSE Find(s, c, i + 1)

RECURSIVE Split(_, _)
Split(s, c) ==
    LET i == Find(s, c, 1)
    IN  IF i = 0 THEN <<s>>
        ELSE <<SubSeq(s, 1, i - 1)>> \o Split(SubSeq(s, i + 1, Len(s)), c)

RECURSIVE Concat(_)
Concat(ss) == IF ss = <<>> THEN <<>> ELSE Head(ss) \o Concat(Tail(ss))

RECURSIVE Join(_, _)
Join(ss, sep) ==
    IF ss = <<>> THEN <<>>
    ELSE IF Len(ss) = 1 THEN ss[1]
    ELSE ss[1] \o sep \o Join(Tail(ss), sep)

(***************************************************************************)
(* util/encoding.rs: enum Encoding.  A value is a record of its variant    *)
(* and, for Ext, the carried string (empty for the other variants).        *)
(***************************************************************************)
Enc(tag) == [tag |-> tag, s |-> <<>>]
Ext(s) == [tag |-> "Ext", s |-> s]

Star == Enc("Star")
Chunked == Enc("Chunked")
Brotli == Enc("Brotli")
Gzip == Enc("Gzip")
Deflate == Enc("Deflate")
Compress == Enc("Compress")
Identity == Enc("Identity")
Trailers == Enc("Trailers")

WellKnown == {Star, Chunked, Brotli, Gzip, Deflate, Compress, Identity, Trailers}

\* impl fmt::Display for Encoding, with one arm misspelt ("brotli" for "br").
Encoding_fmt_WrongArm(e) ==
    CASE e = Chunked -> <<"c", "h", "u", "n", "k", "e", "d">>
      [] e = Star -> <<"*">>
      [] e = Brotli -> <<"b", "r", "o", "t", "l", "i">>
      [] e = Gzip -> <<"g", "z", "i", "p">>
      [] e = Deflate -> <<"d", "e", "f", "l", "a", "t", "e">>
      [] e = Compress -> <<"c", "o", "m", "p", "r", "e", "s", "s">>
      [] e = Identity -> <<"i", "d", "e", "n", "t", "i", "t", "y">>
      [] e = Trailers -> <<"t", "r", "a", "i", "l", "e", "r", "s">>
      [] OTHER -> e.s

\* impl fmt::Display for Encoding
Encoding_fmt(e) ==
    CASE e = Chunked -> <<"c", "h", "u", "n", "k", "e", "d">>
      [] e = Star -> <<"*">>
      [] e = Brotli -> <<"b", "r">>
      [] e = Gzip -> <<"g", "z", "i", "p">>
      [] e = Deflate -> <<"d", "e", "f", "l", "a", "t", "e">>
      [] e = Compress -> <<"c", "o", "m", "p", "r", "e", "s", "s">>
      [] e = Identity -> <<"i", "d", "e", "n", "t", "i", "t", "y">>
      [] e = Trailers -> <<"t", "r", "a", "i", "l", "e", "r", "s">>
      [] OTHER -> e.s

\* impl str::FromStr for Encoding: never fails, the catch-all arm is Ext.
Encoding_from_str(s) ==
    CASE s = <<"*">> -> Star
      [] s = <<"c", "h", "u", "n", "k", "e", "d">> -> Chunked
      [] s = <<"b", "r">> -> Brotli
      [] s = <<"d", "e", "f", "l", "a", "t", "e">> -> Deflate
      [] s = <<"g", "z", "i", "p">> -> Gzip
      [] s = <<"c", "o", "m", "p", "r", "e", "s", "s">> -> Compress
      [] s = <<"i", "d", "e", "n", "t", "i", "t", "y">> -> Identity
      [] s = <<"t", "r", "a", "i", "l", "e", "r", "s">> -> Trailers
      [] OTHER -> Ext(s)

\* common/accept_encoding.rs: const STAR
STAR == Ext(<<"*">>)

(***************************************************************************)
(* Quality-weighted value: a coding and a weight in permille, 0..1000.     *)
(* Its parser, formatter and comparison are not among the source files;    *)
(* they follow the specification, sections 4.2 and 8, and the direction of *)
(* the comparison is the one tests::iter_sorted fixes.                     *)
(***************************************************************************)
QV(value, quality) == [value |-> value, quality |-> quality]

Digits == {"0", "1", "2", "3", "4", "5", "6", "7", "8", "9"}

DigitVal(c) ==
    CASE c = "0" -> 0 [] c = "1" -> 1 [] c = "2" -> 2 [] c = "3" -> 3
      [] c = "4" -> 4 [] c = "5" -> 5 [] c = "6" -> 6 [] c = "7" -> 7
      [] c = "8" -> 8 [] c = "9" -> 9

DigitChar(n) ==
    CASE n = 0 -> "0" [] n = 1 -> "1" [] n = 2 -> "2" [] n = 3 -> "3"
      [] n = 4 -> "4" [] n = 5 -> "5" [] n = 6 -> "6" [] n = 7 -> "7"
      [] n = 8 -> "8" [] n = 9 -> "9"

RECURSIVE DigitsVal(_)
DigitsVal(ds) ==
    IF ds = <<>> THEN 0
    ELSE 10 * DigitsVal(SubSeq(ds, 1, Len(ds) - 1)) + DigitVal(ds[Len(ds)])

\* qvalue text to permille; -1 when it is not <digits>[.<digits>], has more
\* than 3 fractional digits, or is outside [0, 1].
Quality_from_str(t) ==
    LET dot == Find(t, ".", 1)
        int == IF dot = 0 THEN t ELSE SubSeq(t, 1, dot - 1)
        frac == IF dot = 0 THEN <<>> ELSE SubSeq(t, dot + 1, Len(t))
        padded == frac \o SubSeq(<<"0", "0", "0">>, 1, 3 - Len(frac))
    IN  IF \/ int = <<>>
           \/ \E i \in 1..Len(int) : int[i] \notin Digits
           \/ \E i \in 1..Len(frac) : frac[i] \notin Digits
           \/ Len(frac) > 3
        THEN -1
        ELSE LET v == 1000 * DigitsVal(int) + DigitsVal(padded)
             IN  IF v > 1000 THEN -1 ELSE v

RECURSIVE TrimTrailingZeros(_)
TrimTrailingZeros(ds) ==
    IF ds # <<>> /\ ds[Len(ds)] = "0"
    THEN TrimTrailingZeros(SubSeq(ds, 1, Len(ds) - 1))
    ELSE ds

\* A weight below 1.000 as text: trailing zeros trimmed, at most 3 decimals.
Quality_fmt(q) ==
    IF q = 0 THEN <<"0">>
    ELSE <<"0", ".">> \o
         TrimTrailingZeros(<<DigitChar(q \div 100),
                             DigitChar((q \div 10) % 10),
                             DigitChar(q % 10)>>)

ParseError == [ok |-> FALSE, value |-> Ext(<<>>), quality |-> 0]

\* Single-item parse: split on the first ';', the left part is the coding,
\* the right part is q=<qvalue>; no parameter means weight 1.000.
QualityValue_from_str(item) ==
    LET semi == Find(item, ";", 1)
        left == Trim(IF semi = 0 THEN item ELSE SubSeq(item, 1, semi - 1))
        right == IF semi = 0 THEN <<>>
                 ELSE Trim(SubSeq(item, semi + 1, Len(item)))
        q == IF semi = 0 THEN 1000
             ELSE IF Len(right) >= 2 /\ right[1] = "q" /\ right[2] = "="
                  THEN Quality_from_str(SubSeq(right, 3, Len(right)))
                  ELSE -1
    IN  IF left = <<>> \/ q = -1 THEN ParseError
        ELSE [ok |-> TRUE, value |-> Encoding_from_str(left), quality |-> q]

\* <token> when the weight is 1.000, otherwise <token>; q=<weight>.
QualityValue_fmt(qv) ==
    IF qv.quality = 1000 THEN Encoding_fmt(qv.value)
    ELSE Encoding_fmt(qv.value) \o <<";", " ", "q", "=">> \o Quality_fmt(qv.quality)

\* Comparison by weight alone; equal weights compare as Equal.
QualityValue_partial_cmp(a, b) ==
    IF a.quality < b.quality THEN "Less"
    ELSE IF a.quality > b.quality THEN "Greater"
    ELSE "Equal"

(***************************************************************************)
(* Flattened comma-separated value (FlatCsv), not among the source files:  *)
(* the items of a field value, comma-split and trimmed, and a field value  *)
(* built from formatted items joined with ", ".                            *)
(***************************************************************************)
FlatCsv_iter(text) ==
    LET parts == Split(text, ",")
    IN  [i \in 1..Len(parts) |-> Trim(parts[i])]

FlatCsv_from_iter(values) == Join(values, <<",", " ">>)

(***************************************************************************)
(* common/accept_encoding.rs: struct AcceptEncoding(FlatCsv).              *)
(***************************************************************************)

\* The items of the field that parse, in the order of the text:
\* self.0.iter().filter_map(|s| s.parse().ok()).collect()
RECURSIVE filter_map(_)
filter_map(items) ==
    IF items = <<>> THEN <<>>
    ELSE LET r == QualityValue_from_str(Head(items))
         IN  (IF r.ok THEN <<QV(r.value, r.quality)>> ELSE <<>>)
             \o filter_map(Tail(items))

\* The closure handed to sort_by: a.partial_cmp(b).unwrap_or(Ordering::Equal)
sort_cmp(a, b) == QualityValue_partial_cmp(a, b)

\* x after every element of a sorted vector that is not greater than it.
RECURSIVE InsertStable(_, _)
InsertStable(sorted, x) ==
    IF sorted = <<>> THEN <<x>>
    ELSE LET last == sorted[Len(sorted)]
         IN  IF sort_cmp(x, last) = "Less"
             THEN InsertStable(SubSeq(sorted, 1, Len(sorted) - 1), x) \o <<last>>
             ELSE sorted \o <<x>>

\* x before the elements of a sorted vector that compare Equal to it.
RECURSIVE InsertBeforeEqual(_, _)
InsertBeforeEqual(sorted, x) ==
    IF sorted = <<>> THEN <<x>>
    ELSE LET last == sorted[Len(sorted)]
         IN  IF sort_cmp(x, last) # "Greater"
             THEN InsertBeforeEqual(SubSeq(sorted, 1, Len(sorted) - 1), x) \o <<last>>
             ELSE sorted \o <<x>>

RECURSIVE SortFrom(_, _)
SortFrom(sorted, rest) ==
    IF rest = <<>> THEN sorted
    ELSE SortFrom(InsertStable(sorted, Head(rest)), Tail(rest))

RECURSIVE UnstableSortFrom(_, _)
UnstableSortFrom(sorted, rest) ==
    IF rest = <<>> THEN sorted
    ELSE UnstableSortFrom(InsertBeforeEqual(sorted, Head(rest)), Tail(rest))

\* A sort that does not keep the order of equal elements (sort_unstable_by).
sort_by_Unstable(values) == UnstableSortFrom(<<>>, values)

\* Vec::sort_by: a stable sort by sort_cmp.
sort_by(values) == SortFrom(<<>>, values)

\* The items up to the first one that fails to parse (map_while for filter_map).
RECURSIVE map_while(_)
map_while(items) ==
    IF items = <<>> THEN <<>>
    ELSE LET r == QualityValue_from_str(Head(items))
         IN  IF r.ok THEN <<QV(r.value, r.quality)>> \o map_while(Tail(items))
             ELSE <<>>

\* iter() that stops at the first malformed item.
Iter_StopAtError(text) == sort_by(map_while(FlatCsv_iter(text)))

\* iter() without its sort.
Iter_NoSort(text) == filter_map(FlatCsv_iter(text))

\* AcceptEncoding::iter
Iter(text) == sort_by(filter_map(FlatCsv_iter(text)))

\* AcceptEncoding::iter_encodings
IterEncodings(text) ==
    LET values == Iter(text)
    IN  [i \in 1..Len(values) |-> values[i].value]

\* accepts() with all() for any().
Accepts_All(text, encoding) ==
    LET es == IterEncodings(text)
    IN  \A i \in 1..Len(es) : es[i] = STAR \/ es[i] = encoding

\* AcceptEncoding::accepts
Accepts(text, encoding) ==
    LET es == IterEncodings(text)
    IN  \E i \in 1..Len(es) : es[i] = STAR \/ es[i] = encoding

\* from_iter() that collects the items back to front.
FromIter_Reversed(items) ==
    FlatCsv_from_iter([i \in 1..Len(items) |-> QualityValue_fmt(items[Len(items) + 1 - i])])

\* from_iter() that formats the coding alone and loses the weight.
FromIter_NoWeight(items) ==
    FlatCsv_from_iter([i \in 1..Len(items) |-> Encoding_fmt(items[i].value)])

\* impl FromIterator<QualityValue<Encoding>> for AcceptEncoding: the text
\* of the field it builds.
FromIter(items) ==
    FlatCsv_from_iter([i \in 1..Len(items) |-> QualityValue_fmt(items[i])])

\* text.parse::<HeaderValue>() succeeds: no line break or other control
\* character in the text.
IsHeaderValue(t) == \A i \in 1..Len(t) : t[i] \notin {"\n", "\r"}

\* .expect("Method is a valid HeaderValue") panics on one of the items.
FromIterPanics(items) ==
    \E i \in 1..Len(items) : ~IsHeaderValue(QualityValue_fmt(items[i]))

(***************************************************************************)
(* Inputs.                                                                 *)
(***************************************************************************)
\* Raw items a decoded field is made of.
R_gzip == <<"g", "z", "i", "p">>
R_gzip_q1_0 == <<"g", "z", "i", "p", ";", "q", "=", "1", ".", "0">>
R_gzip_q1 == <<"g", "z", "i", "p", ";", "q", "=", "1">>
R_gzip_sp_q0_5 == <<"g", "z", "i", "p", ";", " ", "q", "=", "0", ".", "5">>
R_gzip_q0_5 == <<"g", "z", "i", "p", ";", "q", "=", "0", ".", "5">>
R_gzip_q0 == <<"g", "z", "i", "p", ";", "q", "=", "0">>
R_identity_q0_5 == <<"i", "d", "e", "n", "t", "i", "t", "y", ";", "q", "=", "0", ".", "5">>
R_star == <<"*">>
R_star_q0 == <<"*", ";", "q", "=", "0">>
R_compress == <<"c", "o", "m", "p", "r", "e", "s", "s">>
R_compress_q0_5 == <<"c", "o", "m", "p", "r", "e", "s", "s", ";", "q", "=", "0", ".", "5">>
R_bogus == <<";", "q", "=", "b", "o", "g", "u", "s">>
R_br == <<"b", "r">>

RawItems ==
    { R_gzip,
      R_gzip_q1_0,
      R_gzip_q1,
      R_gzip_sp_q0_5,
      R_gzip_q0_5,
      R_gzip_q0,
      R_identity_q0_5,
      R_star,
      R_star_q0,
      R_compress,
      R_compress_q0_5,
      R_bogus,
      R_br }

SeqsUpTo(S, n) == UNION { [1..k -> S] : k \in 0..n }

\* A field value as it arrives on the wire: items joined with ", ".
Wire(items) == Join(items, <<",", " ">>)

Headers == { Wire(items) : items \in SeqsUpTo(RawItems, MaxItems) }

\* Quality-weighted codings a caller hands to from_iter.
QVInputs ==
    { QV(Gzip, 1000), QV(Gzip, 0), QV(Deflate, 1000), QV(Deflate, 500),
      QV(Identity, 500), QV(Star, 1000), QV(STAR, 0),
      QV(Ext(<<"g", "z", "i", "p">>), 500), QV(Ext(<<"x">>), 5),
      QV(Ext(<<"\n">>), 1000) }

\* Candidates asked of accepts().
Candidates == {Gzip, Deflate, Star}

ExtAlphabet == {"*", "b", "r", "x", " "}

Spellings == { Encoding_fmt(e) : e \in WellKnown }

\* Coding tokens of the round trip: every variant, extension strings up to
\* MaxExtLen, and extensions that carry a well-known spelling.
EncodingInputs ==
    WellKnown \cup { Ext(s) : s \in SeqsUpTo(ExtAlphabet, MaxExtLen) \cup Spellings }

(***************************************************************************)
(* State.                                                                  *)
(***************************************************************************)
VARIABLES
    header,     \* the backing text of the AcceptEncoding
    origin,     \* how it was constructed: "none" (not yet), "decode",
                \* "from_iter", "recollect"
    source,     \* the sequence it was built from (empty when decoded)
    op,         \* the last operation ("panic" when it panicked)
    yielded,    \* what the last iter() yielded
    encodings,  \* what the last iter_encodings() yielded
    candidate,  \* the argument of the last accepts()
    accepted,   \* what the last accepts() returned
    token,      \* a coding token held by the caller
    text,       \* its formatted text
    reparsed    \* the token parsed from that text

vars == <<header, origin, source, op, yielded, encodings, candidate, accepted,
          token, text, reparsed>>

field == <<header, origin, source>>
results == <<yielded, encodings, candidate, accepted>>
tokens == <<token, text, reparsed>>

NoResults ==
    /\ yielded' = <<>>
    /\ encodings' = <<>>
    /\ candidate' = Star
    /\ accepted' = FALSE

\* No field value is constructed yet.
Init ==
    /\ header = <<>>
    /\ origin = "none"
    /\ source = <<>>
    /\ op = "new"
    /\ yielded = <<>>
    /\ encodings = <<>>
    /\ candidate = Star
    /\ accepted = FALSE
    /\ token = Star
    /\ text = <<>>
    /\ reparsed = Star

\* Decoding a field value: the text is kept as it is, nothing is parsed.
\* A field value is constructed once and is immutable from then on.
Decode ==
    /\ origin = "none"
    /\ \E raw \in Headers : header' = raw
    /\ origin' = "decode"
    /\ source' = <<>>
    /\ op' = "decode"
    /\ NoResults
    /\ UNCHANGED tokens

\* items.into_iter().collect::<AcceptEncoding>()
\* It panics, and constructs nothing, when a formatted item is no valid
\* header value.
DoFromIter ==
    /\ origin = "none"
    /\ \E items \in SeqsUpTo(QVInputs, MaxItems) :
           IF FromIterPanics(items)
           THEN /\ op' = "panic"
                /\ UNCHANGED field
           ELSE /\ header' = FromIter(items)
                /\ source' = items
                /\ origin' = "from_iter"
                /\ op' = "from_iter"
    /\ NoResults
    /\ UNCHANGED tokens

\* self.iter().collect::<AcceptEncoding>()
Recollect ==
    /\ origin # "none"
    /\ IF FromIterPanics(Iter(header))
       THEN /\ op' = "panic"
            /\ UNCHANGED field
       ELSE /\ header' = FromIter(Iter(header))
            /\ source' = Iter(header)
            /\ origin' = "recollect"
            /\ op' = "from_iter"
    /\ NoResults
    /\ UNCHANGED tokens

DoIter ==
    /\ origin # "none"
    /\ yielded' = Iter(header)
    /\ op' = "iter"
    /\ encodings' = <<>>
    /\ candidate' = Star
    /\ accepted' = FALSE
    /\ UNCHANGED <<field, tokens>>

DoIterEncodings ==
    /\ origin # "none"
    /\ encodings' = IterEncodings(header)
    /\ op' = "iter_encodings"
    /\ yielded' = <<>>
    /\ candidate' = Star
    /\ accepted' = FALSE
    /\ UNCHANGED <<field, tokens>>

DoAccepts(encoding) ==
    /\ origin # "none"
    /\ candidate' = encoding
    /\ accepted' = Accepts(header, encoding)
    /\ op' = "accepts"
    /\ yielded' = <<>>
    /\ encodings' = <<>>
    /\ UNCHANGED <<field, tokens>>

Next ==
    \/ Decode
    \/ DoFromIter
    \/ Recollect
    \/ DoIter
    \/ DoIterEncodings
    \/ \E encoding \in Candidates : DoAccepts(encoding)

Spec == Init /\ [][Next]_vars

(***************************************************************************)
(* The coding token on its own: a token is formatted, the text parsed.     *)
(***************************************************************************)
InitEncoding ==
    /\ header = <<>>
    /\ origin = "none"
    /\ source = <<>>
    /\ op = "new"
    /\ yielded = <<>>
    /\ encodings = <<>>
    /\ candidate = Star
    /\ accepted = FALSE
    /\ token \in EncodingInputs
    /\ text = <<>>
    /\ reparsed = Star

\* token.to_string()
Display ==
    /\ op = "new"
    /\ text' = Encoding_fmt(token)
    /\ op' = "fmt"
    /\ UNCHANGED <<token, reparsed, field, results>>

\* text.parse::<Encoding>()
FromStr ==
    /\ op = "fmt"
    /\ reparsed' = Encoding_from_str(text)
    /\ op' = "from_str"
    /\ UNCHANGED <<token, text, field, results>>

NextEncoding == Display \/ FromStr

SpecEncoding == InitEncoding /\ [][NextEncoding]_vars

(***************************************************************************)
(* Properties.                                                             *)
(***************************************************************************)
\* The parsed items of the current field in the order of its text.
Parsed == filter_map(FlatCsv_iter(header))

\* A coding that is the wildcard, whichever way it is represented.
IsWildcard(e) == e = Star \/ e = Ext(<<"*">>)

OfQuality(values, w) ==
    LET Test(v) == v.quality = w
    IN  SelectSeq(values, Test)

Count(values, v) == Cardinality({ i \in 1..Len(values) : values[i] = v })

\* C1: accepts(c) is true exactly when the entries of iter() hold a wildcard
\* with nonzero weight or the coding c with nonzero weight; an entry of
\* weight 0 never grants acceptance.
C1_AcceptsIffNonzeroMatch ==
    op = "accepts" =>
        /\ accepted <=>
               \E i \in 1..Len(Iter(header)) :
                   /\ Iter(header)[i].quality # 0
                   /\ \/ IsWildcard(Iter(header)[i].value)
                      \/ Iter(header)[i].value = candidate
        /\ header = Wire(<<R_gzip_q1_0, R_identity_q0_5, R_star_q0>>) =>
               /\ candidate = Deflate => ~accepted
               /\ candidate = Gzip => accepted

\* C2: iter() yields the entries in descending order of weight, the most
\* preferred first, and iter_encodings() the same codings in that order.
C2_IterDescending ==
    /\ op = "iter" =>
          \A i, j \in 1..Len(yielded) :
              i < j => yielded[i].quality >= yielded[j].quality
    /\ op = "iter_encodings" =>
          \E values \in SeqsUpTo({ Parsed[k] : k \in 1..Len(Parsed) }, Len(Parsed)) :
              /\ Len(values) = Len(Parsed)
              /\ \A k \in 1..Len(Parsed) : Count(values, Parsed[k]) = Count(Parsed, Parsed[k])
              /\ \A i, j \in 1..Len(values) :
                     i < j => values[i].quality >= values[j].quality
              /\ encodings = [i \in 1..Len(values) |-> values[i].value]
    /\ header = Wire(<<R_compress_q0_5, R_gzip_q1>>) =>
          /\ op = "iter" => yielded = <<QV(Gzip, 1000), QV(Compress, 500)>>
          /\ op = "iter_encodings" => encodings = <<Gzip, Compress>>

C4_StableSort ==
    op = "iter" =>
        /\ Len(yielded) = Len(Parsed)
        /\ \A w \in { Parsed[i].quality : i \in 1..Len(Parsed) } :
               OfQuality(yielded, w) = OfQuality(Parsed, w)
        /\ header = Wire(<<R_compress, R_gzip>>) =>
               yielded = <<QV(Compress, 1000), QV(Gzip, 1000)>>
        /\ header = Wire(<<R_gzip_q0_5, R_identity_q0_5>>) =>
               yielded = <<QV(Gzip, 500), QV(Identity, 500)>>

C4_Witness ==
    /\ op = "iter"
    /\ header = Wire(<<R_gzip_q0_5, R_identity_q0_5>>)
    /\ Len(yielded) = 2

\* C5: iter() drops every item that fails to parse and yields every item
\* that parses exactly once, with its own coding and weight; "gzip,
\* ;q=bogus, br" yields exactly [gzip@1.0, br@1.0].
C5_MalformedDropped ==
    op = "iter" =>
        LET items == FlatCsv_iter(header)
            good == { i \in 1..Len(items) : QualityValue_from_str(items[i]).ok }
            entry(i) == QV(QualityValue_from_str(items[i]).value,
                           QualityValue_from_str(items[i]).quality)
        IN  /\ Len(yielded) = Cardinality(good)
            /\ \A i \in good :
                   Count(yielded, entry(i)) =
                       Cardinality({ k \in good : entry(k) = entry(i) })
            /\ header = Wire(<<R_gzip, R_bogus, R_br>>) =>
                   yielded = <<QV(Gzip, 1000), QV(Brotli, 1000)>>

C5_Witness ==
    /\ op = "iter"
    /\ header = Wire(<<R_gzip, R_bogus, R_br>>)
    /\ Len(yielded) = 2

\* The spellings Encoding::from_str matches.
WellKnownSpellings ==
    { <<"*">>,
      <<"c", "h", "u", "n", "k", "e", "d">>,
      <<"b", "r">>,
      <<"d", "e", "f", "l", "a", "t", "e">>,
      <<"g", "z", "i", "p">>,
      <<"c", "o", "m", "p", "r", "e", "s", "s">>,
      <<"i", "d", "e", "n", "t", "i", "t", "y">>,
      <<"t", "r", "a", "i", "l", "e", "r", "s">> }

C7_FromIterJoins ==
    origin = "from_iter" =>
        /\ header =
              Concat([i \in 1..Len(source) |->
                  (IF i = 1 THEN <<>> ELSE <<",", " ">>)
                  \o Encoding_fmt(source[i].value)
                  \o (IF source[i].quality = 1000 THEN <<>>
                      ELSE <<";", " ", "q", "=">> \o Quality_fmt(source[i].quality))])
        /\ source = <<QV(Gzip, 1000), QV(Deflate, 1000)>> =>
              header = <<"g", "z", "i", "p", ",", " ",
                         "d", "e", "f", "l", "a", "t", "e">>
        /\ source = <<QV(Gzip, 1000), QV(Deflate, 500)>> =>
              header = <<"g", "z", "i", "p", ",", " ",
                         "d", "e", "f", "l", "a", "t", "e",
                         ";", " ", "q", "=", "0", ".", "5">>

C7_Witness ==
    /\ origin = "from_iter"
    /\ source = <<QV(Gzip, 1000), QV(Deflate, 500)>>

\* C8: the field built from what iter() yields, iterated again, yields the
\* same entries in the same order.
C8_RecollectIdempotent ==
    (origin = "recollect" /\ op = "iter") => yielded = source

C8_Witness ==
    /\ origin = "recollect"
    /\ op = "iter"
    /\ Len(yielded) = 3
    /\ yielded[1].quality = yielded[2].quality
    /\ yielded[1].value # yielded[2].value
    /\ yielded[2].quality < yielded[3].quality

\* C9: on the empty field value iter() yields nothing and accepts(c) is
\* false for every candidate c.
C9_EmptyField ==
    (origin # "none" /\ header = <<>>) =>
        /\ op = "iter" => yielded = <<>>
        /\ op = "iter_encodings" => encodings = <<>>
        /\ op = "accepts" => ~accepted
        /\ Iter(header) = <<>>

C9_Witness ==
    /\ origin = "decode"
    /\ header = <<>>
    /\ op = "accepts"
    /\ candidate = Gzip
    /\ ~accepted

\* C10: the token parsed from "*" equals the wildcard constant accepts()
\* compares against: on the field "*" iter() yields one wildcard entry of
\* weight 1.000, equal to that constant, and accepts(c) is true for every c.
C10_WildcardConsistent ==
    header = <<"*">> =>
        /\ op = "iter" => yielded = <<QV(STAR, 1000)>>
        /\ op = "accepts" => accepted

====
